---- MODULE Spec2Model ----
(***************************************************************************)
(* PaddingElimination (orttraining compute optimizer): the graph pass      *)
(* ApplyImpl with its helpers, as a state machine over a small graph.      *)
(*                                                                         *)
(* A graph is a sequence of nodes (index = node index) and a sequence of   *)
(* node args (index = the NodeArg).  A dimension is an integer: d > 0 is a *)
(* dim_value, d < 0 a dim_param (a symbol), 0 a dimension with neither.    *)
(***************************************************************************)
EXTENDS Integers, Sequences, FiniteSets, TLC

VARIABLES
  nodes,                         \* Graph: the nodes, by node index
  args,                          \* Graph: the node args (edges), by identity
  topo,                          \* GraphViewer::GetNodesInTopologicalOrder
  sparse_embedding_input_names_, \* PaddingElimination member
  enable_,                       \* PaddingElimination member (full / lightweight)
  pc,                            \* position in ApplyImpl
  scan,                          \* index into topo of the anchor scan
  embedding_node,                \* 0 is nullptr
  input_ids_arg,                 \* 0 is nullptr
  padding_idx,                   \* the value read at line 438
  subgraph,
  candidate_inputs,
  candidate_outputs,
  skip_nodes,
  inspect_activation_node_ptr_to_its_output_rank,
  to_visit,
  visited,
  modified,                      \* bool& modified
  status,                        \* "running", "ok", "fatal" (ORT_ENFORCE / ORT_THROW), "crash"
  squeeze_out_arg,
  first_two_dims_arg,
  todo,                          \* what the current loop has still to visit
  run,                           \* which invocation of ApplyImpl this is
  nodes0, args0,                 \* the graph as this invocation received it
  hist,                          \* what earlier invocations / traversals produced
  rt                             \* the adapter kernels' tensors (round trip)

vars == << nodes, args, topo, sparse_embedding_input_names_, enable_, pc, scan,
           embedding_node, input_ids_arg, padding_idx, subgraph, candidate_inputs,
           candidate_outputs, skip_nodes,
           inspect_activation_node_ptr_to_its_output_rank, to_visit, visited,
           modified, status, squeeze_out_arg, first_two_dims_arg, todo, run,
           nodes0, args0, hist, rt >>

\* the part of the state that is the graph and the pass configuration
graphVars == << topo, sparse_embedding_input_names_, enable_ >>

(***************************************************************************)
(* Bounds of the model.                                                    *)
(***************************************************************************)
\* downstream nodes after the embedding nodes
MaxDown == 2
\* batch size and sequence length of the tensors of the adapter round trip
MaxB == 2
MaxS == 2

(***************************************************************************)
(* Node args and nodes.                                                    *)
(***************************************************************************)
\* the symbolic dimension of line 691 ("valid_token_count_<seed>")
token_dim_name == -9

kInspectActivationFuncName ==
  "onnxruntime.training.utils.hooks._statistics_subscriber._InspectActivation"
kIncrementStepFuncName ==
  "onnxruntime.training.utils.hooks._subscriber_manager._IncrementStep"

has_dim_value(d) == d > 0

Arg(has, dims) ==
  [has |-> has, dims |-> dims, gin |-> FALSE, init |-> "none", irank |-> 0,
   ival |-> 0, et |-> "FLOAT"]

Shp(dims) == Arg(TRUE, dims)
NoShape == Arg(FALSE, <<>>)
GraphInput(dims) == [Shp(dims) EXCEPT !.gin = TRUE, !.et = "INT64"]
Initializer(type, rank, val) ==
  [Arg(TRUE, [i \in 1..rank |-> 1]) EXCEPT !.init = type, !.irank = rank,
                                           !.ival = val, !.et = type]

Node(op, ins, outs) ==
  [op |-> op, ins |-> ins, outs |-> outs, ep |-> TRUE, oper |-> "", axis |-> 0,
   axes |-> <<>>, func |-> "", itr |-> <<>>, otr |-> <<>>, conv |-> <<>>,
   hasGrads |-> FALSE, grads |-> <<>>, types |-> <<>>]

Hook(func, ins, outs, rank) ==
  [Node("PythonOp", ins, outs) EXCEPT !.func = func, !.itr = <<rank>>,
     !.otr = <<rank>>, !.conv = <<"d">>, !.hasGrads = TRUE, !.grads = <<1>>,
     !.types = <<"FLOAT">>]

Shape(g, a) == g[a].dims
HasShape(g, a) == a # 0 /\ g[a].has
Rank(g, a) == Len(g[a].dims)

RECURSIVE Rep(_, _)
Rep(x, n) == IF n <= 0 THEN <<>> ELSE <<x>> \o Rep(x, n - 1)

\* Node::OutputNodesBegin .. OutputNodesEnd of node n: one entry per output
\* edge (consumer, source output, destination input), by consumer index.
RECURSIVE OutputNodes(_, _, _)
OutputNodes(ns, n, c) ==
  IF c > Len(ns) THEN <<>>
  ELSE LET k == Cardinality({p \in (DOMAIN ns[n].outs) \X (DOMAIN ns[c].ins) :
                               ns[c].ins[p[2]] = ns[n].outs[p[1]]})
       IN  Rep(c, k) \o OutputNodes(ns, n, c + 1)

(***************************************************************************)
(* The graphs the pass is run on.  Args 1..7 and nodes 1..2 are the two    *)
(* embedding lookups; downstream node j is node 2 + j with the args        *)
(* 7 + 3(j-1) + 1 (its other input), + 2 (output 0), + 3 (output 1).       *)
(***************************************************************************)
Trailing(sd) == SubSeq(sd, 3, Len(sd))
Front(sd) == SubSeq(sd, 1, Len(sd) - 1)
Last(sd) == IF Len(sd) = 0 THEN <<>> ELSE <<sd[Len(sd)]>>

HookKinds == {"Inspect", "InspectNoShape", "InspectNoGrads", "Step", "PyOther"}

\* kinds whose output carries the stream on (they are classified included)
CoreKinds == {"Cast", "Dropout", "AddBias", "MatMulVec", "Inspect", "LN"}

Kinds == CoreKinds \cup
  {"AddSeq", "AddSame", "AddRow", "AddBig", "AddNoShape", "BiasL", "SubL",
   "LN1", "Gelu", "MatMul", "MatMulR", "InspectNoShape", "InspectNoGrads", "Step",
   "PyOther",
   "ReduceMean", "ReduceMean1", "Softmax"}

\* Downstream node of kind k reading the stream arg s (of shape sd), with
\* its args at b+1, b+2, b+3.
KindNode(k, s, sd, b) ==
  LET x == b + 1
      o == b + 2
      p == b + 3
      r == Len(sd)
      N(nd, xa, oa) == [node |-> nd, x |-> xa, o0 |-> oa, o1 |-> NoShape]
  IN CASE k = "AddBias" -> N(Node("Add", <<s, x>>, <<o>>), Shp(Trailing(sd)), Shp(sd))
       [] k = "AddSeq" -> N(Node("Add", <<s, x>>, <<o>>), Shp(Tail(sd)), Shp(sd))
       [] k = "AddSame" -> N(Node("Mul", <<s, x>>, <<o>>), Shp(sd), Shp(sd))
       [] k = "AddRow" -> N(Node("Sub", <<s, x>>, <<o>>), Shp(<<1>> \o Tail(sd)), Shp(sd))
       [] k = "AddBig" -> N(Node("Add", <<s, x>>, <<o>>), Shp(<<3>> \o sd), Shp(<<3>> \o sd))
       [] k = "AddNoShape" -> N(Node("BiasGelu", <<s, x>>, <<o>>), NoShape, Shp(sd))
       [] k = "BiasL" -> N(Node("Add", <<x, s>>, <<o>>), Shp(Trailing(sd)), Shp(sd))
       [] k = "SubL" -> N(Node("Sub", <<x, s>>, <<o>>), Shp(Tail(sd)), Shp(sd))
       [] k = "LN" -> N([Node("LayerNormalization", <<s, x>>, <<o>>) EXCEPT !.axis = -1],
                        Shp(Last(sd)), Shp(sd))
       [] k = "LN1" -> N([Node("SimplifiedLayerNormalization", <<s, x>>, <<o>>)
                            EXCEPT !.axis = 1 - r], Shp(Tail(sd)), Shp(sd))
       [] k = "Dropout" -> [node |-> Node("Dropout", <<s>>, <<o, p>>), x |-> NoShape,
                            o0 |-> Shp(sd), o1 |-> Shp(sd)]
       [] k = "Cast" -> N(Node("Cast", <<s>>, <<o>>), NoShape, Shp(sd))
       [] k = "Gelu" -> N(Node("Gelu", <<s>>, <<o>>), NoShape, Shp(sd))
       [] k = "MatMul" -> N(Node("MatMul", <<s, x>>, <<o>>), Shp(Last(sd) \o <<8>>),
                            Shp(Front(sd) \o <<8>>))
       [] k = "MatMulVec" -> N(Node("MatMulBnb4", <<s, x>>, <<o>>), Shp(Last(sd)),
                               Shp(Front(sd)))
       [] k = "MatMulR" -> N(Node("MatMul", <<x, s>>, <<o>>), Shp(<<8, 8>>), Shp(sd))
       [] k = "Inspect" -> [node |-> Hook(kInspectActivationFuncName, <<s>>, <<o, p>>, r),
                            x |-> NoShape, o0 |-> Shp(<<>>), o1 |-> Shp(sd)]
       [] k = "InspectNoShape" ->
                           [node |-> Hook(kInspectActivationFuncName, <<s>>, <<o, p>>, r),
                            x |-> NoShape, o0 |-> NoShape, o1 |-> Shp(sd)]
       [] k = "InspectNoGrads" ->
                           [node |-> [Hook(kInspectActivationFuncName, <<s>>, <<o, p>>, r)
                                        EXCEPT !.hasGrads = FALSE, !.grads = <<>>],
                            x |-> NoShape, o0 |-> Shp(<<>>), o1 |-> Shp(sd)]
       [] k = "Step" -> [node |-> Hook(kIncrementStepFuncName, <<s>>, <<o, p>>, r),
                         x |-> NoShape, o0 |-> Shp(<<>>), o1 |-> Shp(sd)]
       [] k = "PyOther" -> [node |-> Hook("_Other", <<s>>, <<o, p>>, r),
                            x |-> NoShape, o0 |-> Shp(<<>>), o1 |-> Shp(sd)]
       [] k = "ReduceMean" -> N([Node("ReduceMean", <<s>>, <<o>>) EXCEPT !.axes = <<-1>>],
                                NoShape, Shp(Front(sd) \o <<1>>))
       [] k = "ReduceMean1" -> N([Node("ReduceMean", <<s>>, <<o>>) EXCEPT !.axes = <<2, 1>>],
                                 NoShape, Shp(sd))
       [] OTHER -> N(Node("Softmax", <<s>>, <<o>>), NoShape, Shp(sd))

DownBase(j) == 7 + 3 * (j - 1)

\* the arg on which downstream node i (of kind k) passes the stream on
MainOut(i, k) == DownBase(i) + (IF k \in HookKinds THEN 3 ELSE 2)

RECURSIVE AddDown(_, _, _, _)
AddDown(g, ks, srcs, j) ==
  IF j > Len(ks) THEN g
  ELSE LET s == IF srcs[j] = 0 THEN 4 ELSE MainOut(srcs[j], ks[srcs[j]])
           kn == KindNode(ks[j], s, g.args[s].dims, DownBase(j))
       IN  AddDown([nodes |-> Append(g.nodes, kn.node),
                    args |-> g.args \o <<kn.x, kn.o0, kn.o1>>], ks, srcs, j + 1)

\* An ATen embedding node: inputs (weight, token ids, padding index).
Embedding(ids, pad, out) ==
  [Node("ATen", <<1, ids, pad>>, <<out>>) EXCEPT !.oper = "embedding"]

\* Two embedding lookups (of token-id shapes d1 and d2, with the padding
\* initializers p1 and p2) and the downstream nodes ks reading from srcs.
Graph(e1, e2, d1, d2, p1, p2, ks, srcs) ==
  LET base == [nodes |-> <<e1, e2>>,
               args |-> << Shp(<<9, 8>>),
                           d1, p1, Shp(d1.dims \o <<8>>),
                           d2, p2, Shp(d2.dims \o <<8>>) >>]
      g == AddDown(base, ks, srcs, 1)
  IN  [nodes |-> g.nodes, args |-> g.args, topo |-> [i \in 1..Len(g.nodes) |-> i]]

Ids(tr) == GraphInput(<<-1, -2>> \o tr)
Pad64 == Initializer("INT64", 0, 0)

\* srcs: downstream node j reads the embedding output (0) or an earlier node
Srcs(n) == {f \in [1..n -> 0..(n - 1)] : \A j \in 1..n : f[j] < j}

Chains ==
  UNION {{<<ks, f>> : ks \in {q \in [1..n -> Kinds] : \A j \in 1..(n - 1) : q[j] \in CoreKinds},
                      f \in Srcs(n)} : n \in 1..MaxDown}

(***************************************************************************)
(* Anchor location: ApplyImpl lines 390-468.                               *)
(***************************************************************************)
IsATenEmbedding(n) == n.op = "ATen" /\ n.oper = "embedding"

\* line 438: the initializer's raw bytes read as one int64, kept as its two
\* 32-bit halves (hi is the signed upper half).  An INT32 initializer holds
\* four bytes, so the upper half of the value read lies outside the buffer:
\* hi is what the build finds there.
ReadPaddingIdx(a, hi) ==
  [hi |-> IF a.init = "INT64" THEN (IF a.ival < 0 THEN -1 ELSE 0) ELSE hi,
   lo |-> a.ival]

\* padding_idx < 0, line 439
IsNegative(v) == v.hi < 0

\* what may lie behind the four bytes of an INT32 initializer
UpperHalf(a) == IF a.init = "INT32" THEN {0, -1} ELSE {0}

\* lines 417-425
IsCandidate(as, n) ==
  /\ IsATenEmbedding(n)
  /\ n.ep
  /\ Len(n.ins) >= 3
  /\ n.ins[3] # 0
  /\ as[n.ins[3]].init # "none"
  /\ n.ins[2] # 0
  /\ as[n.ins[2]].gin
  /\ as[n.ins[2]].has
  /\ Len(as[n.ins[2]].dims) >= 2

\* lines 426-448: TRUE when the node is taken as embedding_node
IsAnchor(as, names, n, hi) ==
  /\ IsCandidate(as, n)
  /\ n.ins[2] \in names
  /\ as[n.ins[3]].irank = 0
  /\ as[n.ins[3]].init \in {"INT32", "INT64"}
  /\ ~IsNegative(ReadPaddingIdx(as[n.ins[3]], hi))

Range(f) == {f[i] : i \in DOMAIN f}

\* line 390
Start ==
  /\ pc = "start"
  /\ IF sparse_embedding_input_names_ = {}
       THEN pc' = "done" /\ status' = "ok"
       ELSE pc' = "scan" /\ status' = status
  /\ UNCHANGED << nodes, args, graphVars, scan, embedding_node, input_ids_arg,
                  padding_idx, subgraph, candidate_inputs, candidate_outputs,
                  skip_nodes, inspect_activation_node_ptr_to_its_output_rank,
                  to_visit, visited, modified, squeeze_out_arg,
                  first_two_dims_arg, todo, run, nodes0, args0, hist, rt >>

\* one iteration of the loop of line 413
ScanStep ==
  /\ pc = "scan"
  /\ scan <= Len(topo)
  /\ LET id == topo[scan]
         n == nodes[id]
     IN  \E hi \in (IF IsCandidate(args, n) THEN UpperHalf(args[n.ins[3]]) ELSE {0}) :
           IF IsAnchor(args, sparse_embedding_input_names_, n, hi)
             THEN /\ embedding_node' = id
                  /\ input_ids_arg' = n.ins[2]
                  /\ padding_idx' = ReadPaddingIdx(args[n.ins[3]], hi)
                  /\ subgraph' = Range(n.outs)
                  /\ pc' = "check"
                  /\ scan' = scan
             ELSE /\ scan' = scan + 1
                  /\ UNCHANGED << embedding_node, input_ids_arg, padding_idx,
                                  subgraph, pc >>
  /\ UNCHANGED << nodes, args, graphVars, candidate_inputs, candidate_outputs,
                  skip_nodes, inspect_activation_node_ptr_to_its_output_rank,
                  to_visit, visited, modified, status, squeeze_out_arg,
                  first_two_dims_arg, todo, run, nodes0, args0, hist, rt >>

\* the loop of line 413 ends without a break
ScanEnd ==
  /\ pc = "scan"
  /\ scan > Len(topo)
  /\ pc' = "check"
  /\ UNCHANGED << nodes, args, graphVars, scan, embedding_node, input_ids_arg,
                  padding_idx, subgraph, candidate_inputs, candidate_outputs,
                  skip_nodes, inspect_activation_node_ptr_to_its_output_rank,
                  to_visit, visited, modified, status, squeeze_out_arg,
                  first_two_dims_arg, todo, run, nodes0, args0, hist, rt >>

\* the trailing dimensions taken as static whatever they are
C2_NoTrailingCheck(dims) == FALSE

\* line 463-468: a dimension after the first two has no dim_value
TrailingDimWithoutValue(dims) ==
  \E k \in 3..Len(dims) : ~has_dim_value(dims[k])

\* a visited set that outlives the call: what an earlier traversal left
\* behind keeps a later one from pushing anything
C6_PushUnlessTraversedBefore(ns, q, node, vis) ==
  q \o SelectSeq(OutputNodes(ns, node, 1), LAMBDA c : c \notin vis /\ hist = <<>>)

\* every consumer pushed, visited or not
C25_PushVisitedToo(ns, q, node, vis) == q \o OutputNodes(ns, node, 1)

\* PushAllOutputNode, lines 23-30
PushAllOutputNode(ns, q, node, vis) ==
  q \o SelectSeq(OutputNodes(ns, node, 1), LAMBDA c : c \notin vis)

\* lines 452-468: the exits for a graph the pass does not apply to ("no
\* anchor", "no shape", "no value"), or "" when the pass goes on
Inapplicable(as, emb, ids) ==
  IF emb = 0 THEN "no anchor"
  ELSE IF ~as[ids].has THEN "no shape"
  ELSE IF TrailingDimWithoutValue(as[ids].dims) THEN "no value"
  ELSE ""

\* lines 452-474, up to the first push of IterateSubgraphFromNode (line 223)
Check ==
  /\ pc = "check"
  /\ IF Inapplicable(args, embedding_node, input_ids_arg) # ""
       THEN pc' = "done" /\ status' = "ok" /\ to_visit' = to_visit
       ELSE /\ pc' = "iterate"
            /\ status' = status
            /\ to_visit' = PushAllOutputNode(nodes, <<>>, embedding_node, {})
  /\ UNCHANGED << nodes, args, graphVars, scan, embedding_node, input_ids_arg,
                  padding_idx, subgraph, candidate_inputs, candidate_outputs,
                  skip_nodes, inspect_activation_node_ptr_to_its_output_rank,
                  visited, modified, squeeze_out_arg, first_two_dims_arg, todo,
                  run, nodes0, args0, hist, rt >>

(***************************************************************************)
(* IterateSubgraphFromNode, lines 212-384.                                 *)
(***************************************************************************)
BinaryOps == {"Add", "BiasGelu", "Sub", "Mul"}
NormOps == {"LayerNormalization", "SimplifiedLayerNormalization"}
MatMulOps == {"MatMul", "MatMulBnb4"}

\* the axis taken as written, negative or not
C14_AxisAsWritten(axis, rank) == axis

\* axis < 0 ? axis + rank : axis
NormalizeAxis(axis, rank) == IF axis < 0 THEN axis + rank ELSE axis

\* the verdict on one dequeued node: what it adds to the subgraph, whether
\* its consumers are pushed, and the sets it is put into
Verdict ==
  [err |-> "", add |-> {}, push |-> FALSE, ci |-> FALSE, co |-> FALSE,
   skip |-> FALSE, insp |-> {}, dec |-> "none"]
BoundaryOutput == [Verdict EXCEPT !.co = TRUE]
Fatal == [Verdict EXCEPT !.err = "fatal"]
Crash == [Verdict EXCEPT !.err = "crash"]

\* an input outside the subgraph of the same rank as the other rejected too
C23_EqualRankRejected(as, sub, n) ==
  LET a == n.ins[1]
      b == n.ins[2]
  IN  IF ~(a \in sub \/ b \in sub) THEN [Verdict EXCEPT !.err = "fatal"]
      ELSE IF as[a].has /\ as[b].has /\
              ~(\/ (a \notin sub /\ Len(as[a].dims) >= Len(as[b].dims))
                \/ (b \notin sub /\ Len(as[b].dims) >= Len(as[a].dims)))
        THEN [Verdict EXCEPT !.add = {n.outs[1]}, !.push = TRUE, !.ci = TRUE,
                             !.skip = TRUE]
        ELSE [Verdict EXCEPT !.co = TRUE]

\* lines 228-254
BinaryRule(as, sub, n) ==
  LET a == n.ins[1]
      b == n.ins[2]
  IN  IF ~(a \in sub \/ b \in sub) THEN Fatal
      ELSE IF as[a].has /\ as[b].has
        THEN IF \/ (a \notin sub /\ Rank(as, a) > Rank(as, b))
                \/ (b \notin sub /\ Rank(as, b) > Rank(as, a))
               THEN BoundaryOutput
               ELSE [Verdict EXCEPT !.add = {n.outs[1]}, !.push = TRUE,
                                    !.ci = TRUE, !.skip = TRUE]
        ELSE BoundaryOutput

\* lines 255-279
NormRule(as, sub, n) ==
  IF n.ins[1] \notin sub THEN BoundaryOutput
  ELSE IF ~as[n.ins[1]].has THEN BoundaryOutput
  ELSE IF NormalizeAxis(n.axis, Rank(as, n.ins[1])) < 2 THEN BoundaryOutput
  ELSE [Verdict EXCEPT !.add = {n.outs[1]}, !.push = TRUE, !.skip = TRUE]

\* lines 280-284
DropoutRule(sub, n) ==
  IF n.ins[1] \notin sub THEN Fatal
  ELSE [Verdict EXCEPT !.add = {n.outs[1], n.outs[2]}, !.push = TRUE]

\* a passthrough rule that adds the output and leaves the consumers alone
C26_CastWithoutPush(sub, n) ==
  IF n.ins[1] \notin sub THEN Fatal
  ELSE [Verdict EXCEPT !.add = {n.outs[1]}, !.skip = TRUE]

\* lines 285-290
CastRule(sub, n) ==
  IF n.ins[1] \notin sub THEN Fatal
  ELSE [Verdict EXCEPT !.add = {n.outs[1]}, !.push = TRUE, !.skip = TRUE]

\* a left operand of rank 2 taken as collapsible
C15_RankAtLeastTwo(as, sub, n) ==
  IF n.ins[1] \in sub
    THEN IF Len(as[n.ins[1]].dims) >= 2
           THEN [err |-> "", add |-> {n.outs[1]}, push |-> TRUE, ci |-> FALSE,
                 co |-> FALSE, skip |-> TRUE, insp |-> {}, dec |-> "none"]
           ELSE [err |-> "", add |-> {}, push |-> FALSE, ci |-> FALSE, co |-> TRUE,
                 skip |-> FALSE, insp |-> {}, dec |-> "none"]
    ELSE [err |-> IF n.ins[2] \in sub THEN "" ELSE "fatal", add |-> {}, push |-> FALSE,
          ci |-> FALSE, co |-> n.ins[2] \in sub, skip |-> FALSE, insp |-> {},
          dec |-> "none"]

\* lines 291-315; line 298 dereferences Shape() unchecked
MatMulRule(as, sub, n) ==
  IF n.ins[1] \in sub
    THEN IF ~as[n.ins[1]].has THEN Crash
         ELSE IF Rank(as, n.ins[1]) > 2
           THEN [Verdict EXCEPT !.add = {n.outs[1]}, !.push = TRUE, !.skip = TRUE]
           ELSE BoundaryOutput
    ELSE IF n.ins[2] \in sub THEN BoundaryOutput
    ELSE Fatal

\* A hook in lightweight mode meets no attribute update at all.
C1_UpdateInEveryMode(apply, n) ==
  IF Len(n.itr) = 1 /\ n.itr[1] >= 2 /\ Len(n.otr) = 1 /\ n.otr[1] >= 2
    THEN "both" ELSE "none"

\* lines 332-349: the ORT_ENFORCEs on the two rank attributes; "in" when
\* only input_tensor_ranks was rewritten before the second one threw
RankDecrement(n) ==
  IF ~(Len(n.itr) = 1 /\ n.itr[1] >= 2) THEN "none"
  ELSE IF ~(Len(n.otr) = 1 /\ n.otr[1] >= 2) THEN "in"
  ELSE "both"

\* line 332: the rank attributes are rewritten only when padding removal
\* is applied ("keep" otherwise)
AttributeUpdate(apply, n) == IF apply THEN RankDecrement(n) ELSE "keep"

\* a hook rule that puts both outputs of a recognized hook into the subgraph
C24_BothOutputsAdded(as, sub, apply, id, n) ==
  IF n.ins[1] \notin sub THEN BoundaryOutput
  ELSE LET insp == IF n.func = kInspectActivationFuncName /\ as[n.outs[1]].has
                     THEN {<<id, Rank(as, n.outs[1])>>} ELSE {}
           dec == AttributeUpdate(apply, n)
       IN  IF n.func \in {kInspectActivationFuncName, kIncrementStepFuncName}
             THEN [Verdict EXCEPT !.add = {n.outs[1], n.outs[2]}, !.insp = insp,
                                  !.dec = dec,
                                  !.err = IF dec \in {"keep", "both"} THEN "" ELSE "fatal",
                                  !.push = dec \in {"keep", "both"}]
             ELSE [BoundaryOutput EXCEPT !.insp = insp]

\* lines 316-354
PythonOpRule(as, sub, apply, id, n) ==
  IF n.ins[1] \notin sub THEN BoundaryOutput
  ELSE LET insp == IF n.func = kInspectActivationFuncName /\ as[n.outs[1]].has
                     THEN {<<id, Rank(as, n.outs[1])>>} ELSE {}
           dec == AttributeUpdate(apply, n)
       IN  IF n.func \in {kInspectActivationFuncName, kIncrementStepFuncName}
             THEN [Verdict EXCEPT !.add = {n.outs[2]}, !.insp = insp, !.dec = dec,
                                  !.err = IF dec \in {"keep", "both"} THEN "" ELSE "fatal",
                                  !.push = dec \in {"keep", "both"}]
             ELSE [BoundaryOutput EXCEPT !.insp = insp]

\* lines 355-379
ReduceMeanRule(as, n) ==
  IF as[n.ins[1]].has
    THEN IF Len(n.axes) > 0 /\
            \A i \in DOMAIN n.axes : NormalizeAxis(n.axes[i], Rank(as, n.ins[1])) >= 2
           THEN [Verdict EXCEPT !.add = {n.outs[1]}, !.push = TRUE]
           ELSE BoundaryOutput
    ELSE BoundaryOutput

\* the if / else-if chain of lines 228-382
Classify(as, sub, apply, id, n) ==
  CASE n.op \in BinaryOps -> BinaryRule(as, sub, n)
    [] n.op \in NormOps -> NormRule(as, sub, n)
    [] n.op = "Dropout" -> DropoutRule(sub, n)
    [] n.op \in {"Cast", "Gelu"} -> CastRule(sub, n)
    [] n.op \in MatMulOps -> MatMulRule(as, sub, n)
    [] n.op = "PythonOp" -> PythonOpRule(as, sub, apply, id, n)
    [] n.op = "ReduceMean" -> ReduceMeanRule(as, n)
    [] OTHER -> BoundaryOutput

\* an update that also resets the hook's input_convention
C20_ResetsConvention(n, dec) ==
  CASE dec = "both" -> [n EXCEPT !.itr = <<n.itr[1] - 1>>, !.otr = <<n.otr[1] - 1>>,
                                 !.conv = <<>>]
    [] dec = "in" -> [n EXCEPT !.itr = <<n.itr[1] - 1>>, !.conv = <<>>]
    [] OTHER -> n

\* lines 339-348 on the hook node
DecrementRanks(n, dec) ==
  CASE dec = "both" -> [n EXCEPT !.itr = <<n.itr[1] - 1>>, !.otr = <<n.otr[1] - 1>>]
    [] dec = "in" -> [n EXCEPT !.itr = <<n.itr[1] - 1>>]
    [] OTHER -> n

\* one iteration of the loop of line 224
IterateStep ==
  /\ pc = "iterate"
  /\ to_visit # <<>>
  /\ LET cur == Head(to_visit)
         v == Classify(args, subgraph, enable_, cur, nodes[cur])
         vis == visited \cup {cur}
     IN  /\ visited' = vis
         /\ nodes' = [nodes EXCEPT ![cur] = DecrementRanks(@, v.dec)]
         /\ inspect_activation_node_ptr_to_its_output_rank' =
              inspect_activation_node_ptr_to_its_output_rank \cup
                {p \in v.insp : \A q \in inspect_activation_node_ptr_to_its_output_rank :
                                  q[1] # p[1]}
         /\ IF v.err # ""
              THEN UNCHANGED << subgraph, candidate_inputs, candidate_outputs,
                                skip_nodes >>
              ELSE /\ subgraph' = subgraph \cup v.add
                   /\ candidate_inputs' = candidate_inputs \cup (IF v.ci THEN {cur} ELSE {})
                   /\ candidate_outputs' = candidate_outputs \cup (IF v.co THEN {cur} ELSE {})
                   /\ skip_nodes' = skip_nodes \cup (IF v.skip THEN {cur} ELSE {})
         /\ IF v.err # ""
              THEN pc' = "done" /\ status' = v.err /\ to_visit' = Tail(to_visit)
              ELSE /\ pc' = pc
                   /\ status' = status
                   /\ to_visit' = IF v.push
                                    THEN PushAllOutputNode(nodes, Tail(to_visit), cur, vis)
                                    ELSE Tail(to_visit)
  /\ UNCHANGED << args, graphVars, scan, embedding_node, input_ids_arg, padding_idx,
                  modified, squeeze_out_arg, first_two_dims_arg, todo, run,
                  nodes0, args0, hist, rt >>

(***************************************************************************)
(* Graph surgery.  A graph under construction is [nodes, args, err].       *)
(***************************************************************************)
G(ns, as) == [nodes |-> ns, args |-> as, err |-> ""]

\* graph.AddNode with fresh output args; the new node runs where `like` runs
AddNode(g, nd, outArgs, like) ==
  [g EXCEPT !.nodes = Append(g.nodes, [nd EXCEPT !.ep = g.nodes[like].ep]),
            !.args = g.args \o outArgs]

\* InsertIntermediateNodeOnDestInput (shared utils): the new node is added
\* and input in_index of dest now reads the new node's output 0; no other
\* consumer of the old arg is touched.
InsertIntermediateNodeOnDestInput(g, dest, in_index, nd, outArgs) ==
  LET h == AddNode(g, nd, outArgs, dest)
  IN  [h EXCEPT !.nodes[dest].ins[in_index] = nd.outs[1]]

\* CreateInitializerFromVector (shared utils): a new int64 initializer
CreateInitializerFromVector(g, len) ==
  [g EXCEPT !.args = Append(g.args, Initializer("INT64", 1, len))]

\* operator== of two dimensions: equal values, or equal symbols
DimEq(a, b) == a # 0 /\ a = b

\* lines 45-66: Shape + GatherElements after input; the result arg is the last
GetDimsValue(g, input, indices_arg, node) ==
  LET a == Len(g.args) + 1
      h == AddNode(g, Node("Shape", <<input>>, <<a>>), <<NoShape>>, node)
  IN  AddNode(h, Node("GatherElements", <<a, indices_arg>>, <<a + 1>>), <<NoShape>>, node)

\* lines 72-130 (in_index is 1 or 2; the other input is 3 - in_index)
InsertExpandForNodeInput(g, node, in_index, first_two_dims_arg_) ==
  LET full == g.nodes[node].ins[3 - in_index]
  IN  IF ~g.args[full].has THEN [g EXCEPT !.err = "crash"]
      ELSE IF ~(Rank(g.args, full) >= 2) THEN [g EXCEPT !.err = "fatal"]
      ELSE LET g1 == IF Rank(g.args, full) = 2 THEN g
                     ELSE LET c == CreateInitializerFromVector(g, Rank(g.args, full) - 2)
                              o == Len(c.args)
                              cn == [Node("Concat", <<first_two_dims_arg_, o>>, <<o + 1>>)
                                       EXCEPT !.axis = 0]
                          IN  AddNode(c, cn, <<NoShape>>, node)
               expand_shape_arg == IF Rank(g.args, full) = 2 THEN first_two_dims_arg_
                                   ELSE Len(g1.args)
               r == Len(g1.args) + 1
           IN  InsertIntermediateNodeOnDestInput(g1, node, in_index,
                 Node("Expand", <<g.nodes[node].ins[in_index], expand_shape_arg>>, <<r>>),
                 <<[Arg(TRUE, g.args[full].dims) EXCEPT !.et = g.args[full].et]>>)

\* an adapter that squeezes a valid-index tensor of its own
C16_IndexPerAdapter(g, node, in_index, gather_index_arg) ==
  LET a == Len(g.args) + 1
      h == AddNode(g, Node("Squeeze", <<gather_index_arg>>, <<a>>), <<NoShape>>, node)
  IN  InsertIntermediateNodeOnDestInput(h, node, in_index,
        Node("FlattenAndUnpad", <<g.nodes[node].ins[in_index], a>>, <<a + 1, a + 2>>),
        <<NoShape, NoShape>>)

\* lines 134-169
InsertFlattenPatternForInput(g, node, in_index, gather_index_arg) ==
  LET a == Len(g.args) + 1
  IN  InsertIntermediateNodeOnDestInput(g, node, in_index,
        Node("FlattenAndUnpad", <<g.nodes[node].ins[in_index], gather_index_arg>>,
             <<a, a + 1>>),
        <<NoShape, NoShape>>)

\* lines 175-207
InsertNodesForOutput(g, node, in_index, gathergrad_index_arg, first_two_dims_arg_) ==
  LET a == Len(g.args) + 1
  IN  InsertIntermediateNodeOnDestInput(g, node, in_index,
        Node("PadAndUnflatten",
             <<g.nodes[node].ins[in_index], gathergrad_index_arg, first_two_dims_arg_>>,
             <<a>>),
        <<NoShape>>)

\* InsertNodesForValidIndices (shared utils): Sub against the padding value,
\* NonZero, Squeeze; the last arg is the 1-D int64 valid-index tensor
InsertNodesForValidIndices(g, input, padding, like) ==
  LET a == Len(g.args) + 1
      g1 == AddNode(g, Node("Sub", <<input, padding>>, <<a>>), <<NoShape>>, like)
      g2 == AddNode(g1, Node("NonZero", <<a>>, <<a + 1>>), <<NoShape>>, like)
  IN  AddNode(g2, Node("Squeeze", <<a + 1>>, <<a + 2>>),
              <<[Shp(<<-7>>) EXCEPT !.et = "INT64"]>>, like)

\* lines 506-522: the shape of the flattened token ids
FlattenedShape(dims) ==
  << IF has_dim_value(dims[1]) /\ has_dim_value(dims[2]) THEN dims[1] * dims[2] ELSE -8 >>
    \o Trailing(dims)

\* lines 485-540: Reshape of the token ids, then the valid indices
InsertValidIndices(g, emb, ids) ==
  LET g1 == CreateInitializerFromVector(g, Len(g.args[ids].dims) - 1)
      a == Len(g1.args)
      g2 == AddNode(g1, Node("Reshape", <<ids, a>>, <<a + 1>>),
                    <<[Shp(FlattenedShape(g.args[ids].dims)) EXCEPT !.et = g.args[ids].et]>>,
                    emb)
  IN  InsertNodesForValidIndices(g2, a + 1, g.nodes[emb].ins[3], emb)

(***************************************************************************)
(* ApplyImpl after the traversal: lines 476-729.                           *)
(***************************************************************************)
\* an Expand only when the ranks differ, whatever the first two dimensions
C9_ExpandOnRankOnly(g, sub, node, i, idx, ftd) ==
  LET n == g.nodes[node]
      other == n.ins[3 - i]
  IN  IF n.ins[i] \in sub THEN g
      ELSE IF Rank(g.args, n.ins[i]) <= Rank(g.args, other) - 2 THEN g
      ELSE LET g1 == IF Rank(g.args, other) # Rank(g.args, n.ins[i])
                       THEN InsertExpandForNodeInput(g, node, i, ftd) ELSE g
           IN  InsertFlattenPatternForInput(g1, node, i, idx)

\* lines 645-675 for input i of a candidate_inputs node
HandleInput(g, sub, node, i, idx, ftd) ==
  LET n == g.nodes[node]
      arg_not_in_subgraph == n.ins[i]
      arg_in_subgraph == n.ins[3 - i]
  IN  IF n.ins[i] \in sub THEN g
      ELSE IF Len(n.ins) # 2 THEN [g EXCEPT !.err = "fatal"]
      ELSE IF ~g.args[arg_not_in_subgraph].has \/ ~g.args[arg_in_subgraph].has
        THEN [g EXCEPT !.err = "crash"]
      ELSE IF Rank(g.args, arg_not_in_subgraph) <= Rank(g.args, arg_in_subgraph) - 2
        THEN g
      ELSE LET g1 == IF \/ Rank(g.args, arg_in_subgraph) # Rank(g.args, arg_not_in_subgraph)
                        \/ ~DimEq(Shape(g.args, arg_in_subgraph)[1],
                                  Shape(g.args, arg_not_in_subgraph)[1])
                        \/ ~DimEq(Shape(g.args, arg_in_subgraph)[2],
                                  Shape(g.args, arg_not_in_subgraph)[2])
                       THEN InsertExpandForNodeInput(g, node, i, ftd)
                       ELSE g
           IN  IF g1.err # "" THEN g1
               ELSE InsertFlattenPatternForInput(g1, node, i, idx)

\* the loop of line 644 from input i on
RECURSIVE HandleInputs(_, _, _, _, _, _)
HandleInputs(g, sub, node, i, idx, ftd) ==
  IF i > Len(g.nodes[node].ins) \/ g.err # "" THEN g
  ELSE HandleInputs(HandleInput(g, sub, node, i, idx, ftd), sub, node, i + 1, idx, ftd)

\* a loop of line 682 that inserts nothing
C8_NoAdapterForOutputs(g, sub, node, i, idx, ftd) == g

\* the loop of line 683 from input i on
RECURSIVE HandleOutputs(_, _, _, _, _, _)
HandleOutputs(g, sub, node, i, idx, ftd) ==
  IF i > Len(g.nodes[node].ins) THEN g
  ELSE HandleOutputs(IF g.nodes[node].ins[i] \in sub
                       THEN InsertNodesForOutput(g, node, i, idx, ftd) ELSE g,
                     sub, node, i + 1, idx, ftd)

\* lines 694-701 for one edge.  input_shape points at the edge's own shape,
\* which SetShape overwrites in the first iteration: the loop then ends.
UpdateShape(g, edge) ==
  LET input_shape == g.args[edge]
  IN  IF ~input_shape.has THEN [g EXCEPT !.err = "crash"]
      ELSE IF Len(input_shape.dims) <= 2 THEN g
      ELSE IF ~has_dim_value(input_shape.dims[3]) THEN [g EXCEPT !.err = "fatal"]
      ELSE [g EXCEPT !.args[edge].dims = <<token_dim_name, input_shape.dims[3]>>]

\* lines 709-716: the consumers of output 0 of the node, each with the first
\* of its inputs that reads it
FirstInputReading(n, a) == CHOOSE i \in DOMAIN n.ins :
                             n.ins[i] = a /\ \A j \in DOMAIN n.ins : n.ins[j] = a => i <= j

\* lines 717-721 for the consumers c..last
RECURSIVE FlattenConsumers(_, _, _, _, _)
FlattenConsumers(g, a, c, last, idx) ==
  IF c > last THEN g
  ELSE FlattenConsumers(
         IF a \in Range(g.nodes[c].ins)
           THEN InsertFlattenPatternForInput(g, c, FirstInputReading(g.nodes[c], a), idx)
           ELSE g,
         a, c + 1, last, idx)

\* lines 705-721 for one node of skip_nodes.  The consumers are rewired in
\* index order; the order of the hash map only renames the new nodes.
HandleSkipNode(g, node, idx, ftd) ==
  LET g1 == InsertNodesForOutput(g, node, 1, idx, ftd)
  IN  FlattenConsumers(g1, g1.nodes[node].outs[1], 1, Len(g1.nodes), idx)

Removed == Node("", <<>>, <<>>)

\* a replacement that moves the consumers of output 0 only
C11_RewireFirstOutputOnly(g, node, squeeze) ==
  LET o == g.nodes[node]
      a == Len(g.args) + 1
      new == [o EXCEPT !.func =
                "onnxruntime.training.utils.hooks._statistics_subscriber._InspectUnpadActivation",
                       !.conv = Append(@, "d"),
                       !.grads = IF o.hasGrads THEN Append(@, 0) ELSE @,
                       !.types = Append(@, g.args[squeeze].et),
                       !.itr = Append(@, Rank(g.args, squeeze)),
                       !.ins = <<o.ins[1], squeeze>>, !.outs = <<a, a + 1>>]
      rewired == [c \in DOMAIN g.nodes |->
                    IF c = node THEN Node("", <<>>, <<>>)
                    ELSE [g.nodes[c] EXCEPT !.ins =
                            [i \in DOMAIN @ |-> IF @[i] = o.outs[1] THEN a ELSE @[i]]]]
  IN  [g EXCEPT !.nodes = Append(rewired, new),
                !.args = g.args \o <<g.args[o.outs[1]], g.args[o.ins[1]]>>]

\* a replacement that records the element type of the hook's own input
C12_TypeOfPrimaryInput(g, node, squeeze) ==
  LET o == g.nodes[node]
      a == Len(g.args) + 1
      new == [o EXCEPT !.func =
                "onnxruntime.training.utils.hooks._statistics_subscriber._InspectUnpadActivation",
                       !.conv = Append(@, "d"),
                       !.grads = IF o.hasGrads THEN Append(@, 0) ELSE @,
                       !.types = Append(@, g.args[o.ins[1]].et),
                       !.itr = Append(@, Rank(g.args, squeeze)),
                       !.ins = <<o.ins[1], squeeze>>, !.outs = <<a, a + 1>>]
      rewired == [c \in DOMAIN g.nodes |->
                    IF c = node THEN Node("", <<>>, <<>>)
                    ELSE [g.nodes[c] EXCEPT !.ins =
                            [i \in DOMAIN @ |-> IF @[i] = o.outs[1] THEN a
                                                ELSE IF @[i] = o.outs[2] THEN a + 1
                                                ELSE @[i]]]]
  IN  [g EXCEPT !.nodes = Append(rewired, new),
                !.args = g.args \o <<g.args[o.outs[1]], g.args[o.ins[1]]>>]

\* lines 557-624 for one recorded _InspectActivation node
ReplaceInspectNode(g, node, squeeze) ==
  LET o == g.nodes[node]
      a == Len(g.args) + 1
      attrs == [o EXCEPT !.func =
                  "onnxruntime.training.utils.hooks._statistics_subscriber._InspectUnpadActivation",
                         !.conv = Append(@, "d"),
                         !.grads = IF o.hasGrads THEN Append(@, 0) ELSE @,
                         !.types = Append(@, g.args[squeeze].et),
                         !.itr = Append(@, Rank(g.args, squeeze))]
      new == [attrs EXCEPT !.ins = <<o.ins[1], squeeze>>, !.outs = <<a, a + 1>>]
      rewired == [c \in DOMAIN g.nodes |->
                    IF c = node THEN Removed
                    ELSE [g.nodes[c] EXCEPT !.ins =
                            [i \in DOMAIN @ |-> IF @[i] = o.outs[1] THEN a
                                                ELSE IF @[i] = o.outs[2] THEN a + 1
                                                ELSE @[i]]]]
  IN  IF ~g.args[squeeze].has THEN [g EXCEPT !.err = "crash"]
      ELSE IF Rank(g.args, squeeze) # 1 THEN [g EXCEPT !.err = "fatal"]
      ELSE [g EXCEPT !.nodes = Append(rewired, new),
                     !.args = g.args \o <<g.args[o.outs[1]], g.args[o.ins[1]]>>]

passLocals == << scan, embedding_node, input_ids_arg, padding_idx, subgraph,
                 candidate_inputs, candidate_outputs, skip_nodes,
                 inspect_activation_node_ptr_to_its_output_rank, to_visit, visited >>

\* the while loop of line 224 ends; lines 476-540
PostIterate ==
  /\ pc = "iterate"
  /\ to_visit = <<>>
  /\ IF ~enable_ /\ inspect_activation_node_ptr_to_its_output_rank = {}
       THEN /\ pc' = "done"
            /\ status' = "ok"
            /\ UNCHANGED << nodes, args, squeeze_out_arg, todo >>
       ELSE LET g == InsertValidIndices(G(nodes, args), embedding_node, input_ids_arg)
            IN  /\ nodes' = g.nodes
                /\ args' = g.args
                /\ squeeze_out_arg' = Len(g.args)
                /\ status' = status
                /\ pc' = IF enable_ THEN "flatten" ELSE "light"
                /\ todo' = {p[1] : p \in inspect_activation_node_ptr_to_its_output_rank}
  /\ UNCHANGED << graphVars, passLocals, modified, first_two_dims_arg, run,
                  nodes0, args0, hist, rt >>

\* the result of a step of the rewriting: the graph, and the end of the pass
\* when the step threw or crashed
Rewritten(g) ==
  /\ nodes' = g.nodes
  /\ args' = g.args
  /\ IF g.err # "" THEN pc' = "done" /\ status' = g.err
                   ELSE pc' = pc /\ status' = status

\* the next node in topological order that the map of line 552 holds
FirstInTopo(S) == topo[CHOOSE i \in DOMAIN topo :
                         topo[i] \in S /\ \A j \in DOMAIN topo : topo[j] \in S => i <= j]

\* one iteration of the loop of line 547 that replaces a node
LightStep ==
  /\ pc = "light"
  /\ todo # {}
  /\ LET node == FirstInTopo(todo)
     IN  /\ Rewritten(ReplaceInspectNode(G(nodes, args), node, squeeze_out_arg))
         /\ todo' = todo \ {node}
         /\ modified' = TRUE
  /\ UNCHANGED << graphVars, passLocals, squeeze_out_arg, first_two_dims_arg, run,
                  nodes0, args0, hist, rt >>

\* the first adapter inserted with the flag left as it was
C29_FlattenLeavesFlag ==
  /\ pc = "flatten"
  /\ LET g1 == CreateInitializerFromVector(G(nodes, args), 2)
         g2 == GetDimsValue(g1, input_ids_arg, Len(g1.args), embedding_node)
         g3 == InsertFlattenPatternForInput(g2, embedding_node, 2, squeeze_out_arg)
     IN  /\ nodes' = g3.nodes
         /\ args' = g3.args
         /\ first_two_dims_arg' = Len(g2.args)
  /\ modified' = modified
  /\ pc' = "inputs"
  /\ todo' = candidate_inputs
  /\ UNCHANGED << graphVars, passLocals, status, squeeze_out_arg, run, nodes0,
                  args0, hist, rt >>

\* lines 632-642
FlattenEmbedding ==
  /\ pc = "flatten"
  /\ LET g1 == CreateInitializerFromVector(G(nodes, args), 2)
         g2 == GetDimsValue(g1, input_ids_arg, Len(g1.args), embedding_node)
         g3 == InsertFlattenPatternForInput(g2, embedding_node, 2, squeeze_out_arg)
     IN  /\ nodes' = g3.nodes
         /\ args' = g3.args
         /\ first_two_dims_arg' = Len(g2.args)
  /\ modified' = TRUE
  /\ pc' = "inputs"
  /\ todo' = candidate_inputs
  /\ UNCHANGED << graphVars, passLocals, status, squeeze_out_arg, run, nodes0,
                  args0, hist, rt >>

\* one iteration of the loop of line 643
InputsStep ==
  /\ pc = "inputs"
  /\ \E node \in todo :
       /\ Rewritten(HandleInputs(G(nodes, args), subgraph, node, 1, squeeze_out_arg,
                                 first_two_dims_arg))
       /\ todo' = todo \ {node}
  /\ UNCHANGED << graphVars, passLocals, modified, squeeze_out_arg,
                  first_two_dims_arg, run, nodes0, args0, hist, rt >>

\* one iteration of the loop of line 682
OutputsStep ==
  /\ pc = "outputs"
  /\ \E node \in todo :
       /\ Rewritten(HandleOutputs(G(nodes, args), subgraph, node, 1, squeeze_out_arg,
                                  first_two_dims_arg))
       /\ todo' = todo \ {node}
  /\ UNCHANGED << graphVars, passLocals, modified, squeeze_out_arg,
                  first_two_dims_arg, run, nodes0, args0, hist, rt >>

\* one iteration of the loop of line 693
ShapeStep ==
  /\ pc = "shapes"
  /\ \E edge \in todo :
       /\ Rewritten(UpdateShape(G(nodes, args), edge))
       /\ todo' = todo \ {edge}
  /\ UNCHANGED << graphVars, passLocals, modified, squeeze_out_arg,
                  first_two_dims_arg, run, nodes0, args0, hist, rt >>

\* one iteration of the loop of line 704
SkipStep ==
  /\ pc = "skip"
  /\ \E node \in todo :
       /\ Rewritten(HandleSkipNode(G(nodes, args), node, squeeze_out_arg,
                                   first_two_dims_arg))
       /\ todo' = todo \ {node}
  /\ UNCHANGED << graphVars, passLocals, modified, squeeze_out_arg,
                  first_two_dims_arg, run, nodes0, args0, hist, rt >>

\* a loop of lines 547-722 ends and the next one begins; line 627 / 728
LoopEnd ==
  /\ pc \in {"light", "inputs", "outputs", "shapes", "skip"}
  /\ todo = {}
  /\ pc' = CASE pc = "inputs" -> "outputs"
             [] pc = "outputs" -> "shapes"
             [] pc = "shapes" -> "skip"
             [] OTHER -> "done"
  /\ todo' = CASE pc = "inputs" -> candidate_outputs
               [] pc = "outputs" -> subgraph
               [] pc = "shapes" -> skip_nodes
               [] OTHER -> {}
  /\ status' = IF pc \in {"light", "skip"} THEN "ok" ELSE status
  /\ UNCHANGED << nodes, args, graphVars, passLocals, modified, squeeze_out_arg,
                  first_two_dims_arg, run, nodes0, args0, hist, rt >>

Next ==
  \/ Start
  \/ ScanStep
  \/ ScanEnd
  \/ Check
  \/ IterateStep
  \/ PostIterate
  \/ LightStep
  \/ FlattenEmbedding
  \/ InputsStep
  \/ OutputsStep
  \/ ShapeStep
  \/ SkipStep
  \/ LoopEnd

(***************************************************************************)
(* The state ApplyImpl starts in.                                          *)
(***************************************************************************)
\* an embedding lookup, right or wrong in one respect
AnchorVariants ==
  {"ok", "ok32", "neg64", "neg32", "padFloat", "padVector", "padNotInit",
   "gather", "otherOperator", "badProvider", "twoInputs", "idsNotInput",
   "idsNoShape", "idsRank1"}

VariantNode(v, ids, pad, out) ==
  CASE v = "gather" -> Node("Gather", <<1, ids, pad>>, <<out>>)
    [] v = "otherOperator" -> [Embedding(ids, pad, out) EXCEPT !.oper = "other"]
    [] v = "badProvider" -> [Embedding(ids, pad, out) EXCEPT !.ep = FALSE]
    [] v = "twoInputs" -> [Embedding(ids, pad, out) EXCEPT !.ins = <<1, ids>>]
    [] OTHER -> Embedding(ids, pad, out)

VariantIds(v, tr) ==
  CASE v = "idsNotInput" -> [Ids(tr) EXCEPT !.gin = FALSE]
    [] v = "idsNoShape" -> [Ids(tr) EXCEPT !.has = FALSE]
    [] v = "idsRank1" -> GraphInput(<<-1>>)
    [] OTHER -> Ids(tr)

VariantPad(v) ==
  CASE v = "ok32" -> Initializer("INT32", 0, 0)
    [] v = "neg64" -> Initializer("INT64", 0, -1)
    [] v = "neg32" -> Initializer("INT32", 0, -1)
    [] v = "padFloat" -> Initializer("FLOAT", 0, 0)
    [] v = "padVector" -> Initializer("INT64", 1, 0)
    [] v = "padNotInit" -> Shp(<<>>)
    [] OTHER -> Pad64

VariantGraph(v1, v2, tr, ks, srcs) ==
  Graph(VariantNode(v1, 2, 3, 4), VariantNode(v2, 5, 6, 7),
        VariantIds(v1, tr), VariantIds(v2, <<>>), VariantPad(v1), VariantPad(v2),
        ks, srcs)

\* the tensors of the adapter round trip are not part of this pass
NoTensors == [pc |-> "none"]

InitPass(g, names, enable) ==
  /\ nodes = g.nodes
  /\ args = g.args
  /\ topo = g.topo
  /\ sparse_embedding_input_names_ = names
  /\ enable_ = enable
  /\ pc = "start"
  /\ scan = 1
  /\ embedding_node = 0
  /\ input_ids_arg = 0
  /\ padding_idx = [hi |-> 0, lo |-> 0]
  /\ subgraph = {}
  /\ candidate_inputs = {}
  /\ candidate_outputs = {}
  /\ skip_nodes = {}
  /\ inspect_activation_node_ptr_to_its_output_rank = {}
  /\ to_visit = <<>>
  /\ visited = {}
  /\ modified = FALSE
  /\ status = "running"
  /\ squeeze_out_arg = 0
  /\ first_two_dims_arg = 0
  /\ todo = {}
  /\ run = 1
  /\ nodes0 = g.nodes
  /\ args0 = g.args
  /\ hist = <<>>

\* one embedding lookup and every chain of downstream nodes, both modes
InitChains ==
  \E c \in Chains, enable \in BOOLEAN :
    InitPass(VariantGraph("ok", "gather", <<>>, c[1], c[2]), {2}, enable)

\* the token ids with and without further dimensions, the list of names
\* empty, right, or naming other inputs
InitInputs ==
  \E names \in {{}, {2}, {5}, {2, 5}}, tr \in {<<>>, <<2>>, <<0>>},
     v2 \in {"ok", "gather"}, ks \in {<<"Cast">>, <<"Inspect">>, <<"AddSeq", "Softmax">>},
     enable \in BOOLEAN :
    InitPass(VariantGraph("ok", v2, tr, ks, [j \in DOMAIN ks |-> j - 1]), names, enable)

\* two embedding lookups, each right or wrong in one respect
InitAnchors ==
  \E v1 \in AnchorVariants, v2 \in {"ok", "neg32", "neg64", "gather"},
     enable \in BOOLEAN :
    InitPass(VariantGraph(v1, v2, <<>>, <<"Cast">>, <<0>>), {2, 5}, enable)

\* the embedding output read by a Cast and a Gelu, an Add of the two, and
\* one more node of kind k reading the Add: two paths to the Add
Diamond(k) ==
  LET base == VariantGraph("ok", "gather", <<>>, <<>>, <<>>)
      sd == <<-1, -2, 8>>
      kn == KindNode(k, 10, sd, 10)
      ns == base.nodes \o << Node("Cast", <<4>>, <<8>>), Node("Gelu", <<4>>, <<9>>),
                             Node("Add", <<8, 9>>, <<10>>), kn.node >>
  IN  [nodes |-> ns,
       args |-> base.args \o << Shp(sd), Shp(sd), Shp(sd), kn.x, kn.o0, kn.o1 >>,
       topo |-> [i \in 1..Len(ns) |-> i]]

\* a LayerNormalization with its Mean output (not put into the subgraph by
\* line 273) read by one more node of kind k
SideOutput(k) ==
  LET base == VariantGraph("ok", "gather", <<>>, <<>>, <<>>)
      kn == KindNode(k, 9, <<-1, -2, 1>>, 10)
      ln == [Node("LayerNormalization", <<4, 10>>, <<8, 9>>) EXCEPT !.axis = -1]
      ns == base.nodes \o << ln, kn.node >>
  IN  [nodes |-> ns,
       args |-> base.args \o << Shp(<<-1, -2, 8>>), Shp(<<-1, -2, 1>>), Shp(<<8>>),
                                kn.x, kn.o0, kn.o1 >>,
       topo |-> [i \in 1..Len(ns) |-> i]]

\* graphs in which a node is reached twice, or through an output that is
\* not in the subgraph
InitJoins ==
  \E k \in Kinds, enable \in BOOLEAN :
    \/ InitPass(Diamond(k), {2}, enable)
    \/ InitPass(SideOutput(k), {2}, enable)

\* the embedding output read by a Cast (node 3) and a Gelu, and an Add of
\* the two (node 5); the Cast is also read by a second Cast (node 6) that
\* feeds a MatMul whose right operand broadcasts the product to rank 4; the
\* last Add reads the first Add and the MatMul
Rejoin ==
  LET base == VariantGraph("ok", "gather", <<>>, <<>>, <<>>)
      sd == <<-1, -2, 8>>
      ns == base.nodes \o << Node("Cast", <<4>>, <<8>>), Node("Gelu", <<4>>, <<9>>),
                             Node("Add", <<8, 9>>, <<10>>), Node("Cast", <<8>>, <<11>>),
                             Node("MatMul", <<11, 12>>, <<13>>),
                             Node("Add", <<10, 13>>, <<14>>) >>
  IN  [nodes |-> ns,
       args |-> base.args \o << Shp(sd), Shp(sd), Shp(sd), Shp(sd), Shp(<<1, 1, 8, 8>>),
                                Shp(<<1>> \o sd), Shp(<<1>> \o sd) >>,
       topo |-> [i \in 1..Len(ns) |-> i]]

InitRejoin == \E enable \in BOOLEAN : InitPass(Rejoin, {2}, enable)

\* the embedding output read by a Cast whose output carries no shape, read
\* in turn by one node of kind k
Unshaped(k) ==
  LET base == VariantGraph("ok", "gather", <<>>, <<>>, <<>>)
      kn == KindNode(k, 8, <<-1, -2, 8>>, 8)
      ns == base.nodes \o << Node("Cast", <<4>>, <<8>>), kn.node >>
  IN  [nodes |-> ns,
       args |-> base.args \o << NoShape, kn.x, kn.o0, kn.o1 >>,
       topo |-> [i \in 1..Len(ns) |-> i]]

InitUnshaped == \E k \in Kinds, enable \in BOOLEAN : InitPass(Unshaped(k), {2}, enable)

\* the embedding output read by two Casts (nodes 3 and 4); the second one
\* feeds a MatMul whose right operand broadcasts the product to rank 4; an
\* Add reads the first Cast and the MatMul, one step and two steps away
\* from the anchor
Skewed ==
  LET base == VariantGraph("ok", "gather", <<>>, <<>>, <<>>)
      sd == <<-1, -2, 8>>
      ns == base.nodes \o << Node("Cast", <<4>>, <<8>>), Node("Cast", <<4>>, <<9>>),
                             Node("MatMul", <<9, 10>>, <<11>>),
                             Node("Add", <<8, 11>>, <<12>>) >>
  IN  [nodes |-> ns,
       args |-> base.args \o << Shp(sd), Shp(sd), Shp(<<1, 1, 8, 8>>), Shp(<<1>> \o sd),
                                Shp(<<1>> \o sd) >>,
       topo |-> [i \in 1..Len(ns) |-> i]]

InitSkewed == \E enable \in BOOLEAN : InitPass(Skewed, {2}, enable)

Init ==
  (InitChains \/ InitInputs \/ InitAnchors \/ InitJoins \/ InitRejoin \/ InitUnshaped
     \/ InitSkewed)
    /\ rt = NoTensors

Spec == Init /\ [][Next]_vars

(***************************************************************************)
(* The exits of ApplyImpl for a graph the pass does not apply to.          *)
(***************************************************************************)
\* a dimension after the first two of the anchor's token-id shape, as the
\* graph had it when the pass began, has no static value
TrailingDimNotStatic ==
  /\ embedding_node # 0
  /\ args0[input_ids_arg].has
  /\ \E k \in 3..Len(args0[input_ids_arg].dims) : args0[input_ids_arg].dims[k] <= 0

\* the traversal ran to its end in lightweight mode and recorded no hook
NoRecordedHook ==
  /\ ~enable_
  /\ inspect_activation_node_ptr_to_its_output_rank = {}
  /\ status \notin {"fatal", "crash"}

InapplicableCase ==
  \/ sparse_embedding_input_names_ = {}
  \/ embedding_node = 0
  \/ ~args0[input_ids_arg].has
  \/ TrailingDimNotStatic
  \/ NoRecordedHook

GraphUntouched == nodes = nodes0 /\ args = args0

C2_AbortsFatally ==
  (pc = "done" /\ TrailingDimNotStatic) => status = "fatal"

\* C2: a trailing dimension of the anchor's token-id shape without static
\* value makes the pass return success before the traversal: nothing is
\* classified, the graph is as it was and the modified flag is not set.
C2_SkipsWithSuccess ==
  (pc = "done" /\ TrailingDimNotStatic) =>
    (status = "ok" /\ visited = {} /\ GraphUntouched /\ ~modified)

\* the pass has ended on a token-id shape [batch, seq, ?]
C2_Witness ==
  /\ pc = "done"
  /\ TrailingDimNotStatic
  /\ Len(args0[input_ids_arg].dims) = 3

(***************************************************************************)
(* The pass run again on the graph it produced.                            *)
(***************************************************************************)
\* GraphViewer::GetNodesInTopologicalOrder: the nodes still in the graph,
\* each after the producers of its inputs, the lowest index first
RECURSIVE TopologicalOrder(_, _, _)
TopologicalOrder(ns, sorted, rest) ==
  IF rest = {} THEN sorted
  ELSE LET ready == {n \in rest : \A m \in rest \ {n} :
                                    Range(ns[m].outs) \cap Range(ns[n].ins) = {}}
           n == CHOOSE r \in ready : \A q \in ready : r <= q
       IN  TopologicalOrder(ns, Append(sorted, n), rest \ {n})

\* a second ApplyImpl on the graph a successful first one returned
Rerun ==
  /\ pc = "done"
  /\ status = "ok"
  /\ run = 1
  /\ run' = 2
  /\ topo' = TopologicalOrder(nodes, <<>>, {n \in DOMAIN nodes : nodes[n] # Removed})
  /\ pc' = "start"
  /\ scan' = 1
  /\ embedding_node' = 0
  /\ input_ids_arg' = 0
  /\ padding_idx' = [hi |-> 0, lo |-> 0]
  /\ subgraph' = {}
  /\ candidate_inputs' = {}
  /\ candidate_outputs' = {}
  /\ skip_nodes' = {}
  /\ inspect_activation_node_ptr_to_its_output_rank' = {}
  /\ to_visit' = <<>>
  /\ visited' = {}
  /\ modified' = FALSE
  /\ status' = "running"
  /\ squeeze_out_arg' = 0
  /\ first_two_dims_arg' = 0
  /\ todo' = {}
  /\ nodes0' = nodes
  /\ args0' = args
  /\ UNCHANGED << nodes, args, sparse_embedding_input_names_, enable_, hist, rt >>

NextTwice == Next \/ Rerun

SpecTwice == Init /\ [][NextTwice]_vars

(***************************************************************************)
(* The anchor.                                                             *)
(***************************************************************************)
\* the six conditions on an embedding lookup, on the graph as the pass got
\* it, the padding index being the value the initializer holds
Qualifies(id) ==
  LET n == nodes0[id]
  IN  /\ IsATenEmbedding(n)
      /\ n.ep
      /\ Len(n.ins) >= 3
      /\ n.ins[3] # 0
      /\ args0[n.ins[3]].init \in {"INT32", "INT64"}
      /\ args0[n.ins[3]].irank = 0
      /\ n.ins[2] # 0
      /\ args0[n.ins[2]].gin
      /\ args0[n.ins[2]].has
      /\ Len(args0[n.ins[2]].dims) >= 2
      /\ n.ins[2] \in sparse_embedding_input_names_
      /\ args0[n.ins[3]].ival >= 0

\* C3 as stated: once the scan is over, the anchor is the first node in
\* topological order that satisfies the six conditions (none when no node
\* does), and the scan stopped at it.
C3_FirstQualifyingNode ==
  (pc \notin {"start", "scan"} /\ sparse_embedding_input_names_ # {}) =>
    IF \E i \in DOMAIN topo : Qualifies(topo[i])
      THEN /\ embedding_node # 0
           /\ topo[scan] = embedding_node
           /\ Qualifies(embedding_node)
           /\ \A j \in 1..(scan - 1) : ~Qualifies(topo[j])
      ELSE embedding_node = 0

\* C4 as stated: a second run on the graph of a successful first run
\* leaves the graph as it is and does not set the modified flag.
C4_SecondRunIsNoOp ==
  (run = 2 /\ pc = "done") => (status = "ok" /\ GraphUntouched /\ ~modified)

(***************************************************************************)
(* The two adapter operators the pass inserts (their kernels run in the    *)
(* execution engine).  A tensor [B, S, ...] is a B x S matrix of rows, a   *)
(* row standing for the trailing dimensions; positions of the flattened    *)
(* B*S space and the indices are counted from 0.                           *)
(***************************************************************************)
\* a row is one of these; the zero row is what PadAndUnflatten fills in
Rows == {1, 2}
Zero == 0

\* the subsets of {0 .. n-1} as ascending sequences
RECURSIVE Ascending(_, _)
Ascending(S, n) ==
  IF n = 0 THEN <<>>
  ELSE Ascending(S, n - 1) \o (IF (n - 1) \in S THEN <<n - 1>> ELSE <<>>)

\* [B, S, ...] -> [B*S, ...], row-major
Flatten(x) ==
  LET S == Len(x[1])
  IN  [p \in 0..(Len(x) * S - 1) |-> x[(p \div S) + 1][(p % S) + 1]]

\* a PadAndUnflatten that puts row i at position i
C5_NoScatter(y, index, shape) ==
  [b \in 1..shape[1] |-> [s \in 1..shape[2] |->
     LET p == (b - 1) * shape[2] + (s - 1)
     IN  IF p < Len(y) THEN y[p + 1] ELSE Zero]]

\* FlattenAndUnpad: the rows at the given flattened indices, and [d0, d1]
FlattenAndUnpad(x, index) ==
  [out |-> [i \in 1..Len(index) |-> Flatten(x)[index[i]]],
   shape |-> <<Len(x), Len(x[1])>>]

\* PadAndUnflatten: zero-initialized [d0, d1, ...] with row i of the input
\* at flattened position index[i]
PadAndUnflatten(y, index, shape) ==
  LET flat == [p \in 0..(shape[1] * shape[2] - 1) |->
                 IF \E i \in DOMAIN index : index[i] = p
                   THEN y[CHOOSE i \in DOMAIN index : index[i] = p]
                   ELSE Zero]
  IN  [b \in 1..shape[1] |-> [s \in 1..shape[2] |-> flat[(b - 1) * shape[2] + (s - 1)]]]

\* a tensor and a sorted valid-index list over its flattened positions
InitTensors ==
  /\ InitPass(VariantGraph("ok", "gather", <<>>, <<"Cast">>, <<0>>), {2}, TRUE)
  /\ \E B \in 1..MaxB, S \in 1..MaxS :
       \E x \in [1..B -> [1..S -> Rows]], I \in SUBSET (0..(B * S - 1)) :
         rt = [pc |-> "padded", x |-> x, index |-> Ascending(I, B * S)]

FlattenAndUnpadStep ==
  /\ rt.pc = "padded"
  /\ rt' = [pc |-> "flat", x |-> rt.x, index |-> rt.index,
            y |-> FlattenAndUnpad(rt.x, rt.index)]
  /\ UNCHANGED << nodes, args, graphVars, passLocals, pc, modified, status,
                  squeeze_out_arg, first_two_dims_arg, todo, run, nodes0, args0, hist >>

PadAndUnflattenStep ==
  /\ rt.pc = "flat"
  /\ rt' = [pc |-> "unflat", x |-> rt.x, index |-> rt.index, y |-> rt.y,
            z |-> PadAndUnflatten(rt.y.out, rt.index, rt.y.shape)]
  /\ UNCHANGED << nodes, args, graphVars, passLocals, pc, modified, status,
                  squeeze_out_arg, first_two_dims_arg, todo, run, nodes0, args0, hist >>

NextAdapters == FlattenAndUnpadStep \/ PadAndUnflattenStep

SpecAdapters == InitTensors /\ [][NextAdapters]_vars

\* C5: PadAndUnflatten(FlattenAndUnpad(X, I), I, [B, S]) has the shape of X,
\* equals X at every flattened position in I and is zero at every other.
C5_RoundTrip ==
  rt.pc = "unflat" =>
    /\ Len(rt.z) = Len(rt.x)
    /\ \A b \in DOMAIN rt.x :
         /\ Len(rt.z[b]) = Len(rt.x[b])
         /\ \A s \in DOMAIN rt.x[b] :
              rt.z[b][s] = IF \E i \in DOMAIN rt.index :
                                 rt.index[i] = (b - 1) * Len(rt.x[b]) + (s - 1)
                             THEN rt.x[b][s] ELSE Zero

\* a round trip that dropped some rows, the first one among them, kept others
C5_Witness ==
  /\ rt.pc = "unflat"
  /\ Len(rt.x) >= 2
  /\ Len(rt.x[1]) >= 2
  /\ Len(rt.index) >= 2
  /\ Len(rt.index) < Len(rt.x) * Len(rt.x[1])
  /\ rt.index[1] > 0

(***************************************************************************)
(* IterateSubgraphFromNode called a second time on the graph as the first  *)
(* call left it, from the same anchor.                                     *)
(***************************************************************************)
Classification ==
  [subgraph |-> subgraph, candidate_inputs |-> candidate_inputs,
   candidate_outputs |-> candidate_outputs]

TraversalOver == pc = "iterate" /\ to_visit = <<>>

Reclassify ==
  /\ TraversalOver
  /\ hist = <<>>
  /\ hist' = << Classification >>
  /\ subgraph' = Range(nodes[embedding_node].outs)
  /\ candidate_inputs' = {}
  /\ candidate_outputs' = {}
  /\ skip_nodes' = {}
  /\ inspect_activation_node_ptr_to_its_output_rank' = {}
  /\ visited' = {}
  /\ to_visit' = PushAllOutputNode(nodes, <<>>, embedding_node, {})
  /\ UNCHANGED << nodes, args, graphVars, scan, embedding_node, input_ids_arg,
                  padding_idx, pc, modified, status, squeeze_out_arg,
                  first_two_dims_arg, todo, run, nodes0, args0, rt >>

NextClassify == Start \/ ScanStep \/ ScanEnd \/ Check \/ IterateStep \/ Reclassify

SpecClassify == Init /\ [][NextClassify]_vars

FullRunOver == pc = "done" /\ status = "ok" /\ enable_ /\ first_two_dims_arg # 0

PadNodes == {p \in DOMAIN nodes : nodes[p].op = "PadAndUnflatten"}

\* C7 as stated: after a full run every PadAndUnflatten node feeds an input
\* of a candidate_outputs node, and reads an edge of the subgraph; with no
\* candidate_outputs node there is no PadAndUnflatten node.
C7_PadOnlyForBoundaryOutputs ==
  FullRunOver =>
    \A p \in PadNodes :
      /\ nodes[p].ins[1] \in subgraph
      /\ \E c \in candidate_outputs : nodes[p].outs[1] \in Range(nodes[c].ins)

OutputsLoopOver == (pc = "outputs" /\ todo = {}) \/ pc = "shapes"

InputsLoopOver == pc = "inputs" /\ todo = {}

Producer(a) == CHOOSE n \in DOMAIN nodes : a \in Range(nodes[n].outs)
IsOutputOf(a, op) == \E n \in DOMAIN nodes : nodes[n].op = op /\ nodes[n].outs[1] = a

C10_SubgraphShapesFlattened ==
  FullRunOver =>
    \A e \in subgraph :
      (args0[e].has /\ Len(args0[e].dims) >= 2) =>
        args[e].dims = <<token_dim_name>> \o Trailing(args0[e].dims)

(***************************************************************************)
(* Lightweight mode: lines 542-628.                                        *)
(***************************************************************************)
\* a lightweight run that recorded a hook has returned
LightRunOver ==
  /\ pc = "done"
  /\ status = "ok"
  /\ ~enable_
  /\ inspect_activation_node_ptr_to_its_output_rank # {}

Recorded == {p[1] : p \in inspect_activation_node_ptr_to_its_output_rank}

\* the node added for the recorded node h: after Reshape, Sub, NonZero and
\* Squeeze, one node per recorded node in topological order
Replacement(h) == Len(nodes0) + 4 + Cardinality({q \in Recorded : q <= h})

\* the edge that takes the place of edge a of the graph as it was
NewOutput(a) ==
  IF \E h \in Recorded : \E k \in 1..2 : nodes0[h].outs[k] = a
    THEN LET h == CHOOSE q \in Recorded : \E k \in 1..2 : nodes0[q].outs[k] = a
             k == CHOOSE j \in 1..2 : nodes0[h].outs[j] = a
         IN  nodes[Replacement(h)].outs[k]
    ELSE a

\* C11: after a lightweight run with a recorded hook there is no
\* FlattenAndUnpad, PadAndUnflatten or Expand node, every edge the graph had
\* has its shape, every node that is not a recorded hook is as it was but
\* for reading the new nodes' outputs 0 and 1 where it read the recorded
\* nodes', every recorded node is removed and replaced by one node of inputs
\* (its primary input, the valid indices) with its rank entries as they
\* were, and modified is set.
C11_LightweightOnlyReplacesHooks ==
  LightRunOver =>
    /\ \A n \in DOMAIN nodes :
         nodes[n].op \notin {"FlattenAndUnpad", "PadAndUnflatten", "Expand"}
    /\ SubSeq(args, 1, Len(args0)) = args0
    /\ Len(nodes) = Len(nodes0) + 4 + Cardinality(Recorded)
    /\ \A n \in (DOMAIN nodes0) \ Recorded :
         nodes[n] = [nodes0[n] EXCEPT !.ins = [i \in DOMAIN @ |-> NewOutput(@[i])]]
    /\ \A h \in Recorded :
         /\ nodes[h] = Removed
         /\ nodes[Replacement(h)].op = "PythonOp"
         /\ nodes[Replacement(h)].ins = <<NewOutput(nodes0[h].ins[1]), squeeze_out_arg>>
         /\ \A k \in 1..2 : nodes[Replacement(h)].outs[k] > Len(args0)
         /\ nodes[Replacement(h)].itr[1] = nodes0[h].itr[1]
         /\ nodes[Replacement(h)].otr = nodes0[h].otr
    /\ modified

\* a recorded hook whose output 1 had a consumer has been replaced
C11_Witness ==
  /\ LightRunOver
  /\ \E h \in Recorded : \E d \in DOMAIN nodes0 :
       nodes0[h].outs[2] \in Range(nodes0[d].ins)

RecognizedHook(n) ==
  /\ n.op = "PythonOp"
  /\ n.func \in {kInspectActivationFuncName, kIncrementStepFuncName}

\* C13 as stated: after a full run, a recognized hook whose primary input
\* is in the subgraph has the single entry of input_tensor_ranks and of
\* output_tensor_ranks one less than before the run.
C13_RanksDecrementedByOne ==
  FullRunOver =>
    \A n \in DOMAIN nodes0 :
      (RecognizedHook(nodes0[n]) /\ nodes0[n].ins[1] \in subgraph) =>
        /\ nodes[n].itr = << nodes0[n].itr[1] - 1 >>
        /\ nodes[n].otr = << nodes0[n].otr[1] - 1 >>

(***************************************************************************)
(* The rules of the traversal, stated of the step that dequeues a node.    *)
(***************************************************************************)
Dequeues == pc = "iterate" /\ to_visit # <<>>
cur == Head(to_visit)

\* an axis counted from the front of a shape of the given rank
EffectiveAxis(axis, rank) == IF axis >= 0 THEN axis ELSE rank + axis

\* the axes of a ReduceMean node, counted from the front
EffectiveAxes(n) ==
  {EffectiveAxis(n.axes[i], Len(args[n.ins[1]].dims)) : i \in DOMAIN n.axes}

\* the dequeued node is put into candidate_outputs and adds no edge
BecomesBoundaryOutput == cur \in candidate_outputs' /\ subgraph' = subgraph
\* the dequeued node's output 0 is put into the subgraph
BecomesIncluded == nodes[cur].outs[1] \in subgraph' /\ cur \notin candidate_outputs'

AxisRuleOfReduceMean ==
  (nodes[cur].op = "ReduceMean" /\ args[nodes[cur].ins[1]].has) =>
    IF nodes[cur].axes = <<>> \/ \E a \in EffectiveAxes(nodes[cur]) : a < 2
      THEN BecomesBoundaryOutput ELSE BecomesIncluded

C15_MatMulRule ==
  [][(/\ Dequeues
      /\ nodes[cur].op \in MatMulOps
      /\ (nodes[cur].ins[1] \in subgraph \/ nodes[cur].ins[2] \in subgraph)) =>
       LET left == nodes[cur].ins[1]
       IN  /\ nodes[cur].outs[1] \in subgraph' <=>
                (left \in subgraph /\ Len(args[left].dims) > 2)
           /\ ((left \in subgraph /\ args[left].has /\ Len(args[left].dims) = 2)
                 \/ left \notin subgraph) => BecomesBoundaryOutput]_vars

\* a MatMul whose left operand, of rank 2, is in the subgraph has been made
\* boundary-output
C15_Witness ==
  /\ pc = "iterate"
  /\ \E n \in visited \cap candidate_outputs :
       /\ nodes[n].op \in MatMulOps
       /\ nodes[n].ins[1] \in subgraph
       /\ Len(args[nodes[n].ins[1]].dims) = 2
       /\ nodes[n].outs[1] \notin subgraph

(***************************************************************************)
(* The valid-index tensor.                                                 *)
(***************************************************************************)
\* the nodes that end the chain of InsertNodesForValidIndices (lines 532-540)
ValidIndexProducers == {n \in DOMAIN nodes : nodes[n].op = "Squeeze"}

\* the nodes the pass makes that take the valid-index tensor
IndexConsumers ==
  {n \in DOMAIN nodes :
     \/ nodes[n].op \in {"FlattenAndUnpad", "PadAndUnflatten"}
     \/ /\ nodes[n].op = "PythonOp"
        /\ nodes[n].func =
             "onnxruntime.training.utils.hooks._statistics_subscriber._InspectUnpadActivation"}

\* C16: in one invocation at most one valid-index tensor is made, and every
\* FlattenAndUnpad, every PadAndUnflatten and every replaced inspection hook
\* has the output of that one Squeeze as its second input.
C16_OneValidIndexTensor ==
  /\ Cardinality(ValidIndexProducers) <= 1
  /\ \A n \in IndexConsumers :
       \E q \in ValidIndexProducers : nodes[n].ins[2] = nodes[q].outs[1]

\* a full rewrite has ended with adapters of both kinds in the graph
C16_Witness ==
  /\ FullRunOver
  /\ Cardinality({n \in DOMAIN nodes : nodes[n].op = "FlattenAndUnpad"}) >= 2
  /\ \E n \in DOMAIN nodes : nodes[n].op = "PadAndUnflatten"

(***************************************************************************)
(* The work queue.                                                         *)
(***************************************************************************)
\* C17: during the traversal no node is in the queue twice and no node
\* that was dequeued is in the queue again, so every node reached from the
\* anchor is enqueued at most once and dequeued exactly once.
C17_EnqueuedOnce ==
  pc = "iterate" =>
    /\ \A i, j \in DOMAIN to_visit : to_visit[i] = to_visit[j] => i = j
    /\ \A i \in DOMAIN to_visit : to_visit[i] \notin visited

(***************************************************************************)
(* The subgraph set.                                                       *)
(***************************************************************************)
\* C18: during the traversal every edge of the subgraph set is an output of
\* the anchor or an output of a node that reads an edge of the set; no rule
\* adds an output of a node none of whose inputs is in the set.
C18_SubgraphInvariant ==
  pc = "iterate" =>
    \A e \in subgraph :
      \/ \E o \in DOMAIN nodes[embedding_node].outs : nodes[embedding_node].outs[o] = e
      \/ \E n \in DOMAIN nodes :
           /\ \E o \in DOMAIN nodes[n].outs : nodes[n].outs[o] = e
           /\ \E i \in DOMAIN nodes[n].ins : nodes[n].ins[i] \in subgraph

(***************************************************************************)
(* The candidate sets.                                                     *)
(***************************************************************************)
\* C19: when the traversal is over no node is both in candidate_inputs and
\* in candidate_outputs.
C19_CandidateSetsDisjoint ==
  TraversalOver => candidate_inputs \cap candidate_outputs = {}

(***************************************************************************)
(* The graph during the classification.                                    *)
(***************************************************************************)
\* C20: while the traversal runs, and until the rewriting begins, the
\* graph is the graph the pass was given, in both modes.
C20_ClassificationDoesNotMutate ==
  pc = "iterate" => (nodes = nodes0 /\ args = args0)

\* C20, for each mode: while the traversal runs no edge changes and no node
\* is added or removed; in lightweight mode no node changes; in full mode
\* the only nodes that change are recognized hooks with their primary input
\* in the subgraph, and of those only input_tensor_ranks and
\* output_tensor_ranks.
C20_OnlyRankAttributesChange ==
  pc = "iterate" =>
    /\ args = args0
    /\ DOMAIN nodes = DOMAIN nodes0
    /\ \A n \in DOMAIN nodes0 :
         \/ nodes[n] = nodes0[n]
         \/ /\ enable_
            /\ RecognizedHook(nodes0[n])
            /\ nodes0[n].ins[1] \in subgraph
            /\ [nodes[n] EXCEPT !.itr = nodes0[n].itr, !.otr = nodes0[n].otr] = nodes0[n]

\* the traversal of a full run has rewritten the rank attributes of a hook
C20_Witness ==
  /\ pc = "iterate"
  /\ enable_
  /\ \E n \in DOMAIN nodes0 :
       /\ RecognizedHook(nodes0[n])
       /\ nodes[n].itr # nodes0[n].itr
       /\ nodes[n].otr # nodes0[n].otr

(***************************************************************************)
(* Inputs without a statically known shape.                                *)
(***************************************************************************)
\* node n reads an edge of the subgraph
ReadsSubgraph(n) == \E i \in DOMAIN nodes[n].ins : nodes[n].ins[i] \in subgraph

\* an input that the rule of node n asks the shape of carries none
RequiredInputUnshaped(n) ==
  \/ /\ nodes[n].op \in BinaryOps
     /\ ReadsSubgraph(n)
     /\ ~args[nodes[n].ins[1]].has \/ ~args[nodes[n].ins[2]].has
  \/ /\ nodes[n].op \in NormOps \cup {"ReduceMean"}
     /\ ~args[nodes[n].ins[1]].has
  \/ /\ nodes[n].op \in MatMulOps
     /\ ReadsSubgraph(n)
     /\ ~args[nodes[n].ins[1]].has

\* C21: the step that dequeues a binary elementwise, normalization,
\* ReduceMean or MatMul node with a required input of unknown shape makes
\* the node boundary-output, adds no edge, and ends neither in a fatal
\* error nor in a crash.
C21_UnshapedIsBoundaryOutput ==
  [][(Dequeues /\ RequiredInputUnshaped(cur)) =>
       (BecomesBoundaryOutput /\ status' \notin {"fatal", "crash"})]_vars

(***************************************************************************)
(* The ORT_ENFORCE / ORT_THROW checks of the rules.                        *)
(***************************************************************************)
\* C22: whenever a Dropout, Cast or Gelu node is about to be dequeued its
\* input 0 is in the subgraph, and whenever a binary elementwise or MatMul
\* node is about to be dequeued one of its first two inputs is.
C22_FatalChecksUnreachable ==
  Dequeues =>
    /\ nodes[cur].op \in {"Dropout", "Cast", "Gelu"} => nodes[cur].ins[1] \in subgraph
    /\ nodes[cur].op \in BinaryOps \cup MatMulOps =>
         (nodes[cur].ins[1] \in subgraph \/ nodes[cur].ins[2] \in subgraph)

(***************************************************************************)
(* The binary elementwise rule, lines 228-254.                             *)
(***************************************************************************)
\* the nodes that read an output of node n
ConsumersOf(n) ==
  {c \in DOMAIN nodes : \E i \in DOMAIN nodes[c].ins, o \in DOMAIN nodes[n].outs :
                          nodes[c].ins[i] = nodes[n].outs[o]}

\* an input of node n outside the subgraph has more dimensions than the
\* other one
WiderInputOutside(n) ==
  LET a == nodes[n].ins[1]
      b == nodes[n].ins[2]
  IN  \/ a \notin subgraph /\ Len(args[a].dims) > Len(args[b].dims)
      \/ b \notin subgraph /\ Len(args[b].dims) > Len(args[a].dims)

\* what the step that dequeues the binary node cur does, as C23 has it
BinaryOutcome ==
  IF args[nodes[cur].ins[1]].has /\ args[nodes[cur].ins[2]].has /\ ~WiderInputOutside(cur)
    THEN /\ nodes[cur].outs[1] \in subgraph'
         /\ cur \in candidate_inputs'
         /\ cur \in skip_nodes'
         /\ candidate_outputs' = candidate_outputs
         /\ \A c \in ConsumersOf(cur) :
              c \in visited' \/ \E i \in DOMAIN to_visit' : to_visit'[i] = c
    ELSE /\ BecomesBoundaryOutput
         /\ candidate_inputs' = candidate_inputs
         /\ skip_nodes' = skip_nodes

SideTable == inspect_activation_node_ptr_to_its_output_rank

\* what the step that dequeues the PythonOp node cur does, as C24 has it
HookOutcome ==
  IF nodes[cur].ins[1] \in subgraph /\ RecognizedHook(nodes[cur])
    THEN /\ subgraph' = subgraph \cup {nodes[cur].outs[2]}
         /\ \A p \in SideTable' \ SideTable :
              /\ p[1] = cur
              /\ nodes[cur].func = kInspectActivationFuncName
              /\ args[nodes[cur].outs[1]].has
              /\ p[2] = Len(args[nodes[cur].outs[1]].dims)
         /\ (nodes[cur].func = kInspectActivationFuncName /\ args[nodes[cur].outs[1]].has)
              => \E p \in SideTable' : p[1] = cur
    ELSE /\ BecomesBoundaryOutput
         /\ nodes' = nodes
         /\ SideTable' = SideTable

\* C24: the step that dequeues a PythonOp node whose input 0 is outside the
\* subgraph, or whose func_name is neither hook name, makes it
\* boundary-output, adds no edge, changes no attribute and records nothing;
\* for a recognized hook with input 0 in the subgraph it adds output 1 and
\* no other edge, and records the node in the side table only when it is
\* an _InspectActivation node whose output 0 has a shape.
C24_HookRule ==
  [][(Dequeues /\ nodes[cur].op = "PythonOp") => HookOutcome]_vars

\* the traversal has met a recorded inspection hook, a recognized hook that
\* is not recorded, and a PythonOp made boundary-output
C24_Witness ==
  /\ pc = "iterate"
  /\ \E n \in visited :
       /\ RecognizedHook(nodes[n])
       /\ nodes[n].outs[2] \in subgraph
       /\ nodes[n].outs[1] \notin subgraph
       /\ \E p \in SideTable : p[1] = n
  /\ \E n \in visited \cap candidate_outputs :
       /\ nodes[n].op = "PythonOp"
       /\ nodes[n].outs[2] \notin subgraph

(***************************************************************************)
(* Termination of the traversal.  The graphs here include graphs with a    *)
(* cycle among the nodes reached from the anchor; the loop of line 224     *)
(* runs without interruption until it ends, hence the fairness condition.  *)
(***************************************************************************)
\* an Add of the embedding output and of the output of a Cast that reads
\* the Add: a cycle of two nodes
CycleShort ==
  LET base == VariantGraph("ok", "gather", <<>>, <<>>, <<>>)
      sd == <<-1, -2, 8>>
      ns == base.nodes \o << Node("Add", <<4, 9>>, <<8>>), Node("Cast", <<8>>, <<9>>) >>
  IN  [nodes |-> ns, args |-> base.args \o << Shp(sd), Shp(sd) >>,
       topo |-> [i \in 1..Len(ns) |-> i]]

\* a cycle of three nodes, the Add of which is also read by a Mul together
\* with the Gelu that closes the cycle
CycleLong ==
  LET base == VariantGraph("ok", "gather", <<>>, <<>>, <<>>)
      sd == <<-1, -2, 8>>
      ns == base.nodes \o << Node("Add", <<4, 10>>, <<8>>), Node("Cast", <<8>>, <<9>>),
                             Node("Gelu", <<9>>, <<10>>), Node("Mul", <<8, 10>>, <<11>>) >>
  IN  [nodes |-> ns, args |-> base.args \o << Shp(sd), Shp(sd), Shp(sd), Shp(sd) >>,
       topo |-> [i \in 1..Len(ns) |-> i]]

InitCycles ==
  \E enable \in BOOLEAN :
    InitPass(CycleShort, {2}, enable) \/ InitPass(CycleLong, {2}, enable)

InitTraversal ==
  (InitChains \/ InitInputs \/ InitJoins \/ InitRejoin \/ InitUnshaped \/ InitSkewed
     \/ InitCycles)
    /\ rt = NoTensors

NextTraversal == Start \/ ScanStep \/ ScanEnd \/ Check \/ IterateStep

SpecTraversal == InitTraversal /\ [][NextTraversal]_vars /\ WF_vars(IterateStep)

\* C25: once the traversal has begun, the work queue becomes empty (or the
\* traversal is ended by an error) after finitely many dequeues.
C25_TraversalTerminates ==
  (pc = "iterate") ~> (pc = "done" \/ to_visit = <<>>)

\* the traversal of a graph with a cycle has ended with every node of the
\* cycle dequeued
C25_Witness ==
  /\ TraversalOver
  /\ \E a, b \in visited :
       /\ a # b
       /\ \E i \in DOMAIN nodes[b].ins : nodes[b].ins[i] = nodes[a].outs[1]
       /\ \E i \in DOMAIN nodes[a].ins : nodes[a].ins[i] = nodes[b].outs[1]

(***************************************************************************)
(* Coverage of the consumers of the subgraph.                              *)
(***************************************************************************)
\* C26: when the traversal is over, every node that reads an edge of the
\* subgraph has been dequeued and is in candidate_outputs or has an output
\* in the subgraph.
C26_Coverage ==
  TraversalOver =>
    \A n \in DOMAIN nodes :
      ReadsSubgraph(n) =>
        /\ n \in visited
        /\ \/ n \in candidate_outputs
           \/ \E o \in DOMAIN nodes[n].outs : nodes[n].outs[o] \in subgraph

\* the traversal is over with one reader of the subgraph made
\* boundary-output and another one passed through
C26_Witness ==
  /\ TraversalOver
  /\ \E n \in candidate_outputs : ReadsSubgraph(n)
  /\ \E n \in visited \ candidate_outputs :
       /\ ReadsSubgraph(n)
       /\ nodes[n].outs[1] \in subgraph

(***************************************************************************)
(* The layout of the data on the edges of the rewritten graph.             *)
(***************************************************************************)
\* the node that writes edge a, or 0 for a graph input or an initializer
Writer(a) ==
  IF \E n \in DOMAIN nodes : a \in Range(nodes[n].outs)
    THEN CHOOSE n \in DOMAIN nodes : a \in Range(nodes[n].outs)
    ELSE 0

\* The layout of the data edge a carries when the graph runs: "reduced"
\* ([token_count, ...]) behind a FlattenAndUnpad, "padded" ([batch,
\* seq_len, ...]) behind a PadAndUnflatten or an Expand and on an input of
\* the graph whose shape begins with the batch and sequence dimensions; a
\* node other than an adapter hands on the layout of its inputs; "other"
\* for shapes, indices, weights and biases.
RECURSIVE LayoutOf(_)
LayoutOf(a) ==
  LET w == Writer(a)
  IN  IF w = 0
        THEN IF Len(args[a].dims) >= 2 /\ SubSeq(args[a].dims, 1, 2) = <<-1, -2>>
               THEN "padded" ELSE "other"
      ELSE IF nodes[w].op = "FlattenAndUnpad"
        THEN IF a = nodes[w].outs[1] THEN "reduced" ELSE "other"
      ELSE IF nodes[w].op \in {"PadAndUnflatten", "Expand"} THEN "padded"
      ELSE IF nodes[w].op \in {"Shape", "GatherElements", "Concat", "NonZero", "Squeeze"}
        THEN "other"
      ELSE LET ls == {LayoutOf(nodes[w].ins[i]) : i \in DOMAIN nodes[w].ins}
           IN  IF "reduced" \in ls THEN "reduced"
               ELSE IF "padded" \in ls THEN "padded"
               ELSE "other"

\* C27: after a full run that ended well every FlattenAndUnpad reads
\* padded data, every PadAndUnflatten reads reduced data, and no binary
\* elementwise node reads reduced data on one input and padded data on the
\* other.
C27_LayoutConsistency ==
  FullRunOver =>
    \A n \in DOMAIN nodes :
      /\ nodes[n].op = "FlattenAndUnpad" => LayoutOf(nodes[n].ins[1]) = "padded"
      /\ nodes[n].op = "PadAndUnflatten" => LayoutOf(nodes[n].ins[1]) = "reduced"
      /\ nodes[n].op \in BinaryOps =>
           {LayoutOf(nodes[n].ins[1]), LayoutOf(nodes[n].ins[2])} # {"reduced", "padded"}

(***************************************************************************)
(* One class per node.                                                     *)
(***************************************************************************)
\* C28: when the traversal is over no candidate_outputs node has an output
\* in the subgraph or is in skip_nodes.
C28_ExclusiveClassification ==
  TraversalOver =>
    \A n \in candidate_outputs :
      /\ n \notin skip_nodes
      /\ \A o \in DOMAIN nodes[n].outs : nodes[n].outs[o] \notin subgraph

(***************************************************************************)
(* The modified flag.                                                      *)
(***************************************************************************)
\* ApplyImpl has returned Status::OK()
ReturnedOk == pc = "done" /\ status = "ok"

\* the graph is not the graph the pass was given
GraphChanged == nodes # nodes0 \/ args # args0

\* C29: when ApplyImpl has returned success, modified is true if and only
\* if a node was added, removed or rewired, or an attribute or a shape was
\* edited.
C29_ModifiedIffChanged == ReturnedOk => (modified <=> GraphChanged)

\* a lightweight run that replaced a hook, returned with the flag set
C29_Witness ==
  /\ ReturnedOk
  /\ ~enable_
  /\ modified
  /\ GraphChanged

(***************************************************************************)
(* The order in which the consumers of a node are pushed.                  *)
(***************************************************************************)
Reverse(q) == [i \in 1..Len(q) |-> q[Len(q) + 1 - i]]

\* PushAllOutputNode with the output edges of the node iterated from the
\* last to the first
PushAllOutputNodeReversed(ns, q, node, vis) ==
  q \o SelectSeq(Reverse(OutputNodes(ns, node, 1)), LAMBDA c : c \notin vis)

\* the loop of lines 224-383 run to its end with the consumers pushed in
\* that order: the sets it ends with, and the error that ended it if any
RECURSIVE TraverseReversed(_, _, _, _, _)
TraverseReversed(ns, q, vis, sub, co) ==
  IF q = <<>> THEN [subgraph |-> sub, candidate_outputs |-> co, err |-> ""]
  ELSE LET c == Head(q)
           v == Classify(args, sub, enable_, c, ns[c])
           seen == vis \cup {c}
       IN  IF v.err # "" THEN [subgraph |-> sub, candidate_outputs |-> co, err |-> v.err]
           ELSE TraverseReversed([ns EXCEPT ![c] = DecrementRanks(@, v.dec)],
                                 IF v.push THEN PushAllOutputNodeReversed(ns, Tail(q), c, seen)
                                           ELSE Tail(q),
                                 seen, sub \cup v.add,
                                 co \cup (IF v.co THEN {c} ELSE {}))

\* the traversal of the graph the pass was given, from the anchor found
ReversedClassification ==
  TraverseReversed(nodes0, PushAllOutputNodeReversed(nodes0, <<>>, embedding_node, {}), {},
                   Range(nodes0[embedding_node].outs), {})

\* C30: when the traversal is over, its subgraph and candidate_outputs
\* sets are the ones the traversal ends with when the consumers of every
\* node are pushed in the opposite order.
C30_OrderIndependence ==
  (TraversalOver /\ ReversedClassification.err = "") =>
    /\ subgraph = ReversedClassification.subgraph
    /\ candidate_outputs = ReversedClassification.candidate_outputs

====
